---- MODULE Spec2Model ----
(***************************************************************************)
(* Browser lifecycle of HTMLSession / AsyncHTMLSession, the render retry   *)
(* loop of HTML.render / HTML.arender, pagination and cookie conversion    *)
(* (src/requests_html2.py).                                                *)
(*                                                                         *)
(* SpecSession : callers (coroutines for the async variant) acquiring and  *)
(*               closing the browser of one session.                       *)
(* Spec        : render / arender calls on one document.                   *)
(* SpecNext    : HTML.next searching one document for the next-page link.  *)
(* SpecIter    : __iter__, __next__, __aiter__/__anext__ over a site.      *)
(* SpecConvert : conversion of the session's cookie jar for the browser.   *)
(* SpecCookies : two arender calls injecting cookies into pages of the     *)
(*               session's browser.                                        *)
(* SpecSymbols : documents sharing the list of next-page symbols.          *)
(* SpecRun     : AsyncHTMLSession.run over a few coroutines.               *)
(* SpecParser  : content, memoized lxml / pq handles of one parser object. *)
(* SpecAttempt : one render / arender call on a document with content and  *)
(*               parse state.                                              *)
(***************************************************************************)
EXTENDS Integers, Sequences, FiniteSets, TLC

\* ---- bounds ----
NTasks == 2
RetriesBound == 2
MaxCalls == 1
MaxScroll == 1
MaxLinks == 2
NPages == 3
MaxYield == 3
MaxJar == 1
MaxAttempts == 2
MaxDocs == 2
MaxAdds == 2
MaxCoros == 3
MaxRenders == 2

Tasks == 1..NTasks

VARIABLES
    sessions,     \* sequence of session objects: kind, verify, args, has (_browser set), browser
    browsers,     \* sequence of launched browser processes: owner, options, live
    loopRunning,  \* an event loop is running on the calling thread
    tpc,          \* per caller: position inside BaseSession.browser / AsyncHTMLSession.close
    last,         \* the last completed session operation: caller, operation, result
    tscope,       \* per caller: inside a `with session:` block
    tclose,       \* per caller: the handle whose close() is awaited
    mode,         \* "sync": HTML.render on a document of an HTMLSession;
                  \* "async": HTML.arender on a document of an AsyncHTMLSession
    doc,          \* the document: url, html, session, page, browser
    args,         \* the arguments of the current render call
    frame,        \* locals of render / arender: pc, i, content, result, page, reload, cookies,
                  \* and the targets of the page.goto calls made so far (navs)
    att,          \* the running _async_render: its locals (page, result, content, cookie
                  \* index j, scroll index k) and what its page has been through
                  \* (cookies set, navigation target, scroll steps)
    pages,        \* every page opened on a browser: open, call, attempt, browser
    ends,         \* how each attempt of the current call ended
    outcome,      \* what the current call returned or raised
    ncalls,       \* number of render calls made on the document
    site,         \* the pages a server holds: url and anchors in document order
    it,           \* a pagination call or iteration over document 1 of the site: entry
                  \* point, position, documents produced, urls fetched, error raised
    jar,          \* session.cookies: the http.cookiejar.Cookie objects of the session
    rc,           \* per arender call on a document of the session: its arguments, its
                  \* cookies local, its attempt, its page and what the page was given
    ctx,          \* the cookies held by the default context of the session's browser
    heap,         \* the next-symbol list objects of the process and the documents that
                  \* refer to them
    runst,        \* one AsyncHTMLSession.run call: its coroutines, the order they
                  \* finished in, the list returned
    el            \* one parser object (document or element): _html, _lxml, _pq, ...

svars == <<sessions, browsers, loopRunning>>
tvars == <<tpc, last, tscope, tclose>>
rvars == <<mode, doc, args, frame, att, pages, ends, outcome, ncalls>>
pvars == <<site, it>>
cvars == <<jar, rc, ctx>>
ovars == <<heap, runst, el>>
xvars == <<site, it, jar, rc, ctx, heap, runst, el>>
vars == <<sessions, browsers, loopRunning, tpc, last, tscope, tclose,
          mode, doc, args, frame, att, pages, ends, outcome, ncalls,
          site, it, jar, rc, ctx, heap, runst, el>>

\* ---- sessions and browsers ----

\* BaseSession.__init__: no browser is launched, no _browser attribute exists.
NewSession(kind, verify, browser_args) ==
    [kind |-> kind, verify |-> verify, args |-> browser_args, has |-> FALSE, browser |-> 0]

\* pyppeteer.launch(ignoreHTTPSErrors=not self.verify, **self.__browser_args)
Launch(ss, s) ==
    [owner |-> s, ignoreHTTPSErrors |-> ~ss[s].verify, opts |-> ss[s].args, live |-> TRUE]

\* BaseSession.browser, the part after the launch has completed:
\* self._browser = <launched>; return self._browser
StoreBrowser(ss, bs, s) ==
    LET h == Len(bs) + 1 IN
    [err |-> "none", ret |-> h, fresh |-> TRUE,
     ss |-> [ss EXCEPT ![s].has = TRUE, ![s].browser = h],
     bs |-> Append(bs, Launch(ss, s))]

\* mutant of HTMLSession_browser: the hasattr test is lost, every access launches
HTMLSession_browser_relaunch(ss, bs, s, running) ==
    IF running /\ ~ss[s].has
    THEN [err |-> "RuntimeError: Use AsyncHTMLSession instead", ret |-> 0,
          fresh |-> FALSE, ss |-> ss, bs |-> bs]
    ELSE StoreBrowser(ss, bs, s)

\* HTMLSession.browser (synchronous property), evaluated with the loop
\* running or not on the calling thread.
HTMLSession_browser(ss, bs, s, running) ==
    IF ~ss[s].has
    THEN IF running
         THEN [err |-> "RuntimeError: Use AsyncHTMLSession instead", ret |-> 0,
               fresh |-> FALSE, ss |-> ss, bs |-> bs]
         ELSE StoreBrowser(ss, bs, s)
    ELSE [err |-> "none", ret |-> ss[s].browser, fresh |-> FALSE, ss |-> ss, bs |-> bs]

\* browser.close() of the automation engine
CloseBrowser(bs, h) == [bs EXCEPT ![h].live = FALSE]

LiveOf(bs, s) == {h \in 1..Len(bs) : bs[h].owner = s /\ bs[h].live}

\* ---- session operations of one caller ----

Done(t, op, err, ret, fresh) ==
    last' = [t |-> t, op |-> op, err |-> err, ret |-> ret, fresh |-> fresh,
             inLoop |-> loopRunning, n |-> 1 - last.n]

\* A synchronous session is driven by one thread.
MayAct(t) == tpc[t] = "idle" /\ (sessions[1].kind = "sync" => t = 1)

\* BaseSession.get / BaseSession.post
Request(t) ==
    /\ UNCHANGED <<rvars, xvars>>
    /\ MayAct(t)
    /\ \E verb \in {"get", "post"} : Done(t, verb, "none", 0, FALSE)
    /\ UNCHANGED <<svars, tpc, tscope, tclose>>

\* session.browser on an HTMLSession
SyncBrowser(t) ==
    /\ UNCHANGED <<rvars, xvars>>
    /\ MayAct(t)
    /\ sessions[1].kind = "sync"
    /\ LET r == HTMLSession_browser(sessions, browsers, 1, loopRunning) IN
        /\ sessions' = r.ss
        /\ browsers' = r.bs
        /\ Done(t, "browser", r.err, r.ret, r.fresh)
    /\ UNCHANGED <<loopRunning, tpc, tscope, tclose>>

\* await session.browser on an AsyncHTMLSession: the hasattr test, then
\* either the memoized handle or the suspension on pyppeteer.launch
AsyncBrowserBegin(t) ==
    /\ UNCHANGED <<rvars, xvars>>
    /\ MayAct(t)
    /\ sessions[1].kind = "async"
    /\ IF sessions[1].has
       THEN /\ Done(t, "browser", "none", sessions[1].browser, FALSE)
            /\ UNCHANGED tpc
       ELSE /\ tpc' = [tpc EXCEPT ![t] = "launching"]
            /\ UNCHANGED last
    /\ UNCHANGED <<svars, tscope, tclose>>

\* the launch awaited by caller t completes
AsyncBrowserLaunched(t) ==
    /\ UNCHANGED <<rvars, xvars>>
    /\ tpc[t] = "launching"
    /\ LET r == StoreBrowser(sessions, browsers, 1) IN
        /\ sessions' = r.ss
        /\ browsers' = r.bs
        /\ Done(t, "browser", r.err, r.ret, r.fresh)
    /\ tpc' = [tpc EXCEPT ![t] = "idle"]
    /\ UNCHANGED <<loopRunning, tscope, tclose>>

\* HTMLSession.close
HTMLSession_close(ss, bs, s, running) ==
    IF ss[s].has
    THEN IF running
         THEN [err |-> "RuntimeError: This event loop is already running", bs |-> bs]
         ELSE [err |-> "none", bs |-> CloseBrowser(bs, ss[s].browser)]
    ELSE [err |-> "none", bs |-> bs]

SyncClose(t) ==
    /\ UNCHANGED <<rvars, xvars>>
    /\ MayAct(t)
    /\ sessions[1].kind = "sync"
    /\ LET r == HTMLSession_close(sessions, browsers, 1, loopRunning) IN
        /\ browsers' = r.bs
        /\ Done(t, "close", r.err, 0, FALSE)
    /\ UNCHANGED <<sessions, loopRunning, tpc, tscope, tclose>>

\* await session.close() on an AsyncHTMLSession
AsyncCloseBegin(t) ==
    /\ UNCHANGED <<rvars, xvars>>
    /\ MayAct(t)
    /\ sessions[1].kind = "async"
    /\ IF sessions[1].has
       THEN /\ tpc' = [tpc EXCEPT ![t] = "closing"]
            /\ tclose' = [tclose EXCEPT ![t] = sessions[1].browser]
            /\ UNCHANGED last
       ELSE /\ Done(t, "close", "none", 0, FALSE)
            /\ UNCHANGED <<tpc, tclose>>
    /\ UNCHANGED <<svars, tscope>>

AsyncCloseDone(t) ==
    /\ UNCHANGED <<rvars, xvars>>
    /\ tpc[t] = "closing"
    /\ browsers' = CloseBrowser(browsers, tclose[t])
    /\ tpc' = [tpc EXCEPT ![t] = "idle"]
    /\ tclose' = [tclose EXCEPT ![t] = 0]
    /\ Done(t, "close", "none", 0, FALSE)
    /\ UNCHANGED <<sessions, loopRunning, tscope>>

\* `with session:` -- requests.Session.__enter__ returns self
EnterWith(t) ==
    /\ UNCHANGED <<rvars, xvars>>
    /\ MayAct(t)
    /\ ~tscope[t]
    /\ tscope' = [tscope EXCEPT ![t] = TRUE]
    /\ Done(t, "enter", "none", 0, FALSE)
    /\ UNCHANGED <<svars, tpc, tclose>>

\* leaving `with session:` -- requests.Session.__exit__ calls self.close().
\* On an AsyncHTMLSession close is a coroutine function: the call only
\* builds a coroutine object that nobody awaits.
ExitWith(t) ==
    /\ UNCHANGED <<rvars, xvars>>
    /\ MayAct(t)
    /\ tscope[t]
    /\ tscope' = [tscope EXCEPT ![t] = FALSE]
    /\ IF sessions[1].kind = "sync"
       THEN LET r == HTMLSession_close(sessions, browsers, 1, loopRunning) IN
            /\ browsers' = r.bs
            /\ Done(t, "exit", r.err, 0, FALSE)
       ELSE /\ browsers' = browsers
            /\ Done(t, "exit", "none", 0, FALSE)
    /\ UNCHANGED <<sessions, loopRunning, tpc, tclose>>

\* `async with session:` -- neither BaseSession nor AsyncHTMLSession defines
\* __aenter__ / __aexit__
EnterAsyncWith(t) ==
    /\ UNCHANGED <<rvars, xvars>>
    /\ MayAct(t)
    /\ sessions[1].kind = "async"
    /\ Done(t, "aenter", "AttributeError: __aenter__", 0, FALSE)
    /\ UNCHANGED <<svars, tpc, tscope, tclose>>

\* the calling thread of a synchronous session enters or leaves a running loop
ToggleLoop ==
    /\ sessions[1].kind = "sync"
    /\ loopRunning' = ~loopRunning
    /\ UNCHANGED <<sessions, browsers, tvars, rvars, xvars>>

\* ---- BaseParser: the content and the memoized handles ----

\* None where a content or a handle is expected
NoTree == [gen |-> 0, kind |-> "None", clean |-> FALSE]

\* no parser object has been built
IdleEl == [html |-> NoTree, lxml |-> NoTree, pq |-> NoTree, url |-> "", gen |-> 0,
           encoding |-> "None", default_encoding |-> "None"]

\* A content is named by the number of successful renders that preceded it
\* (gen), where it came from (kind) and whether the cleaner has been applied
\* to it; el.lxml and el.pq hold the content the handle was built from, or
\* NoTree for None.
HtmlOf(gen, kind) == [gen |-> gen, kind |-> kind, clean |-> FALSE]

DEFAULT_ENCODING == "utf-8"

\* BaseParser.__init__ as HTML(url=..., html=..., default_encoding=...) calls it
FreshParser(url, html, default_encoding, gen) ==
    [html |-> html, lxml |-> NoTree, pq |-> NoTree, url |-> url, gen |-> gen,
     encoding |-> "None", default_encoding |-> default_encoding]

\* html_to_unicode(default_encoding, body)[0]: the encoding the content
\* declares, or the default
html_to_unicode(default_encoding, html) ==
    IF html.kind = "declared" THEN "iso-8859-1" ELSE default_encoding

\* the encoding property: the memo, or what the content declares; an object
\* without content answers with its default and memoizes nothing
encoding(e) ==
    IF e.encoding # "None" THEN e.encoding
    ELSE IF e.html # NoTree THEN html_to_unicode(e.default_encoding, e.html)
    ELSE e.default_encoding

\* reading self.html decodes the content with self.encoding, which the
\* encoding property memoizes
ReadHtml(e) == IF e.html = NoTree THEN e ELSE [e EXCEPT !.encoding = encoding(e)]

\* mutant of DictUpdate: only the content is taken over
DictUpdate_htmlOnly(self, other) == [self EXCEPT !.html = other.html, !.gen = other.gen]

\* self.__dict__.update(other.__dict__): every attribute of other replaces
\* the attribute of self of that name
DictUpdate(self, other) == [k \in DOMAIN self |-> IF k \in DOMAIN other THEN other[k] ELSE self[k]]

\* the lxml property: parse the content on first use, then return the memo
lxml(e) == IF e.lxml = NoTree THEN e.html ELSE e.lxml

\* the pq property: PyQuery(self.lxml) on first use, then return the memo
pq(e) == IF e.pq = NoTree THEN lxml(e) ELSE e.pq

\* cleaner.clean_html(tree) serialised: the content of the tree, cleaned
clean_html(tree) == [tree EXCEPT !.clean = TRUE]

\* ---- render / arender on one document ----

DEFAULT_URL == "https://example.org/"

\* Python truth value of content: None (0) and "" (-1) are false
Falsy(c) == c <= 0

\* cookies argument: the default [{}], and two records around an empty one
CookieLists == {<<0>>, <<1, 0, 2>>}

\* the arguments of a call, and whether it is made on a thread whose event
\* loop is running (always so for a coroutine awaiting arender)
ArgSet == [retries : 0..RetriesBound, script : BOOLEAN, scrolldown : 0..MaxScroll,
           reload : BOOLEAN, keep_page : BOOLEAN, cookies : CookieLists,
           inLoop : BOOLEAN]

NoArgs == [retries |-> 0, script |-> FALSE, scrolldown |-> 0, reload |-> TRUE,
           keep_page |-> FALSE, cookies |-> <<0>>, inLoop |-> FALSE]
IdleFrame == [pc |-> "idle", i |-> 0, content |-> 0, result |-> 0, page |-> 0,
              reload |-> TRUE, cookies |-> <<0>>, navs |-> {}]
IdleAtt == [page |-> 0, result |-> 0, content |-> 0, j |-> 1, k |-> 0,
            cookies |-> <<>>, nav |-> "none"]
NoOutcome == [kind |-> "none", value |-> 0]

\* errors other than the navigation timeout that a step of an attempt can raise
Errors == {"TypeError", "Error"} \cup (IF mode = "async" THEN {"CancelledError"} ELSE {})

\* raise e out of render / arender
Raise(e) ==
    /\ outcome' = [kind |-> "raised", value |-> e]
    /\ frame' = [frame EXCEPT !.pc = "done"]

\* mutant of Prologue: the caller's reload is used whatever the document's url
Prologue_keepReload(h) ==
    /\ doc' = [doc EXCEPT !.browser = h]
    /\ frame' = [frame EXCEPT !.pc = "loop", !.content = 0,
                              !.reload = args.reload,
                              !.cookies = args.cookies]

\* content = None; if self.url == DEFAULT_URL: reload = False
Prologue(h) ==
    /\ doc' = [doc EXCEPT !.browser = h]
    /\ frame' = [frame EXCEPT !.pc = "loop", !.content = 0,
                              !.reload = IF doc.url = DEFAULT_URL THEN FALSE ELSE args.reload,
                              !.cookies = args.cookies]

\* document.render(...) / await document.arender(...) is called
Call ==
    /\ frame.pc = "idle"
    /\ ncalls < MaxCalls
    /\ \E a \in ArgSet :
          /\ mode = "async" => a.inLoop
          /\ args' = a
    /\ ncalls' = ncalls + 1
    /\ frame' = [IdleFrame EXCEPT !.pc = "acquire"]
    /\ att' = IdleAtt
    /\ ends' = <<>>
    /\ outcome' = NoOutcome
    /\ UNCHANGED <<svars, tvars, xvars, mode, doc, pages>>

\* render: self.browser = self.session.browser
RenderAcquire ==
    /\ frame.pc = "acquire"
    /\ mode = "sync"
    /\ LET r == HTMLSession_browser(sessions, browsers, doc.session, args.inLoop) IN
        /\ sessions' = r.ss
        /\ browsers' = r.bs
        /\ IF r.err # "none"
           THEN Raise(r.err) /\ UNCHANGED doc
           ELSE Prologue(r.ret) /\ UNCHANGED outcome
    /\ UNCHANGED <<loopRunning, tvars, xvars, mode, args, att, pages, ends, ncalls>>

\* arender: self.browser = await self.session.browser.  On an
\* AsyncHTMLSession the hasattr test of BaseSession.browser; on an
\* HTMLSession the synchronous property, read inside the running loop.
ArenderAcquire ==
    /\ frame.pc = "acquire"
    /\ mode = "async"
    /\ IF sessions[doc.session].kind = "async"
       THEN /\ IF sessions[doc.session].has
               THEN Prologue(sessions[doc.session].browser)
               ELSE frame' = [frame EXCEPT !.pc = "launching"] /\ UNCHANGED doc
            /\ UNCHANGED <<sessions, browsers, outcome>>
       ELSE LET r == HTMLSession_browser(sessions, browsers, doc.session, args.inLoop) IN
            /\ sessions' = r.ss
            /\ browsers' = r.bs
            /\ Raise(IF r.err # "none" THEN r.err ELSE "TypeError")
            /\ UNCHANGED doc
    /\ UNCHANGED <<loopRunning, tvars, xvars, mode, args, att, pages, ends, ncalls>>

\* the launch awaited by arender completes
ArenderLaunched ==
    /\ frame.pc = "launching"
    /\ LET r == StoreBrowser(sessions, browsers, doc.session) IN
        /\ sessions' = r.ss
        /\ browsers' = r.bs
        /\ Prologue(r.ret)
    /\ UNCHANGED <<loopRunning, tvars, xvars, mode, args, att, pages, ends, outcome, ncalls>>

\* mutant of Continue: the loop goes on although content was obtained
Continue_ignoringContent(fr, retries) == fr.i < retries

\* for i in range(retries): if not content: <attempt> else: break
Continue(fr, retries) == fr.i < retries /\ Falsy(fr.content)

\* the arguments of _async_render are evaluated first, content=self.html
\* among them
LoopHead ==
    /\ frame.pc = "loop"
    /\ IF Continue(frame, args.retries)
       THEN /\ el' = ReadHtml(el)
            /\ IF mode = "sync" /\ args.inLoop
               THEN /\ ends' = Append(ends, "RuntimeError: This event loop is already running")
                    /\ Raise("RuntimeError: This event loop is already running")
                    /\ UNCHANGED att
               ELSE /\ frame' = [frame EXCEPT !.pc = "newPage", !.i = @ + 1]
                    /\ UNCHANGED <<att, ends, outcome>>
       ELSE /\ frame' = [frame EXCEPT !.pc = "finish"]
            /\ UNCHANGED <<att, ends, outcome, el>>
    /\ UNCHANGED <<svars, tvars, pvars, cvars, heap, runst, mode, doc, args, pages, ncalls>>

\* page = await self.browser.newPage(); await asyncio.sleep(wait)
NewPage ==
    /\ frame.pc = "newPage"
    /\ pages' = Append(pages, [open |-> TRUE, call |-> ncalls, attempt |-> frame.i,
                               browser |-> doc.browser])
    /\ att' = [att EXCEPT !.page = Len(pages) + 1]
    /\ frame' = [frame EXCEPT !.pc = IF frame.cookies # <<>> THEN "setCookie" ELSE "goto"]
    /\ UNCHANGED <<svars, tvars, xvars, mode, doc, args, ends, outcome, ncalls>>

\* for cookie in cookies: if cookie: await page.setCookie(cookie)
SetCookie ==
    /\ frame.pc = "setCookie"
    /\ LET c == frame.cookies[att.j] IN
         att' = [att EXCEPT !.j = @ + 1,
                            !.cookies = IF c # 0 THEN Append(@, c) ELSE @]
    /\ frame' = [frame EXCEPT !.pc = IF att.j = Len(frame.cookies) THEN "goto" ELSE "setCookie"]
    /\ UNCHANGED <<svars, tvars, xvars, mode, doc, args, pages, ends, outcome, ncalls>>

\* mutant of OnTimeout: the handler returns None without closing the page
OnTimeout_leak(ps, p) == ps

\* except TimeoutError: await page.close(); page = None; return None
OnTimeout(ps, p) == [ps EXCEPT ![p].open = FALSE]

\* mutant of NavTarget: every navigation goes to the document's url
NavTarget_always_url(reload) == "url"

\* if reload: page.goto(url) else: page.goto(f"data:text/html,{self.html}")
NavTarget(reload) == IF reload THEN "url" ELSE "data"

\* await page.goto(url | data:text/html,...): completes, or times out; on a
\* timeout _async_render returns None, unpacking it in the caller raises
\* TypeError, and `except TypeError: pass` goes on to the next iteration
Goto ==
    /\ frame.pc = "goto"
    /\ \E timedOut \in BOOLEAN :
          IF timedOut
          THEN /\ pages' = OnTimeout(pages, att.page)
               /\ att' = IdleAtt
               /\ ends' = Append(ends, "timeout")
               /\ frame' = [frame EXCEPT !.pc = "loop",
                                         !.navs = @ \cup {NavTarget(frame.reload)}]
          ELSE /\ att' = [att EXCEPT !.nav = NavTarget(frame.reload)]
               /\ frame' = [frame EXCEPT !.pc = IF args.script THEN "evaluate" ELSE "scroll",
                                         !.navs = @ \cup {NavTarget(frame.reload)}]
               /\ UNCHANGED <<pages, ends>>
    /\ UNCHANGED <<svars, tvars, xvars, mode, doc, args, outcome, ncalls>>

\* result = await page.evaluate(script)
Evaluate ==
    /\ frame.pc = "evaluate"
    /\ att' = [att EXCEPT !.result = att.page]
    /\ frame' = [frame EXCEPT !.pc = "scroll"]
    /\ UNCHANGED <<svars, tvars, xvars, mode, doc, args, pages, ends, outcome, ncalls>>

\* await page._keyboard.down("PageDown"); await asyncio.sleep(sleep)
ScrollStep ==
    /\ frame.pc = "scroll"
    /\ att.k < args.scrolldown
    /\ att' = [att EXCEPT !.k = @ + 1]
    /\ UNCHANGED <<svars, tvars, xvars, mode, doc, args, frame, pages, ends, outcome, ncalls>>

\* mutant of ScrollEnd: the scrolling is left before its last step
ScrollEnd_early ==
    /\ frame.pc = "scroll"
    /\ frame' = [frame EXCEPT !.pc = "content"]
    /\ UNCHANGED <<svars, tvars, xvars, mode, doc, args, att, pages, ends, outcome, ncalls>>

\* after the last step: page._keyboard.up("PageDown"), or the single sleep
\* when no scrolling was asked for
ScrollEnd ==
    /\ frame.pc = "scroll"
    /\ att.k = args.scrolldown
    /\ frame' = [frame EXCEPT !.pc = "content"]
    /\ UNCHANGED <<svars, tvars, xvars, mode, doc, args, att, pages, ends, outcome, ncalls>>

\* return content, result, page  --  content, result, page = <the tuple>
Return(c, r, p) ==
    /\ frame' = [frame EXCEPT !.content = c, !.result = r, !.page = p, !.pc = "loop"]
    /\ ends' = Append(ends, IF Falsy(c) THEN "empty" ELSE "content")

\* content = await page.content(); with keep_page the page stays open
Capture ==
    /\ frame.pc = "content"
    /\ \E c \in {-1, att.page} :
          IF args.keep_page
          THEN Return(c, att.result, att.page) /\ att' = IdleAtt
          ELSE /\ att' = [att EXCEPT !.content = c]
               /\ frame' = [frame EXCEPT !.pc = "close"]
               /\ UNCHANGED ends
    /\ UNCHANGED <<svars, tvars, xvars, mode, doc, args, pages, outcome, ncalls>>

\* mutant of ClosePage: page = None without page.close()
ClosePage_leak ==
    /\ frame.pc = "close"
    /\ att' = IdleAtt
    /\ Return(att.content, att.result, 0)
    /\ UNCHANGED <<svars, tvars, xvars, mode, doc, args, pages, outcome, ncalls>>

\* if not keep_page: await page.close(); page = None
ClosePage ==
    /\ frame.pc = "close"
    /\ pages' = [pages EXCEPT ![att.page].open = FALSE]
    /\ att' = IdleAtt
    /\ Return(att.content, att.result, 0)
    /\ UNCHANGED <<svars, tvars, xvars, mode, doc, args, outcome, ncalls>>

\* `except TypeError: pass` around the attempt
Absorbed(e) == e = "TypeError"

\* a step of the attempt raises something other than the navigation
\* timeout: _async_render has no handler for it, the page stays as it is
Fail ==
    /\ frame.pc \in {"newPage", "setCookie", "goto", "evaluate", "scroll", "content", "close"}
    /\ \E e \in Errors :
          /\ ends' = Append(ends, e)
          /\ IF Absorbed(e)
             THEN frame' = [frame EXCEPT !.pc = "loop"] /\ UNCHANGED outcome
             ELSE Raise(e)
    /\ att' = IdleAtt
    /\ UNCHANGED <<svars, tvars, xvars, mode, doc, args, pages, ncalls>>

\* if not content: raise MaxRetries(...)
\* html = HTML(url=self.url, html=content.encode(...)): no session is passed,
\* so HTML.__init__ builds a new HTMLSession();
\* self.__dict__.update(html.__dict__); self.page = page; return result
\* the parser state of the document after self.__dict__.update(html.__dict__)
Rendered(e) ==
    IF e = IdleEl THEN e
    ELSE DictUpdate(e, FreshParser(e.url, HtmlOf(e.gen + 1, "rendered"),
                                   DEFAULT_ENCODING, e.gen + 1))

\* mutant of Finish: the document is replaced before content is tested
Finish_early ==
    /\ frame.pc = "finish"
    /\ sessions' = Append(sessions, NewSession("sync", TRUE, "default"))
    /\ doc' = [doc EXCEPT !.html = frame.content,
                          !.session = Len(sessions) + 1,
                          !.page = frame.page]
    /\ el' = Rendered(el)
    /\ IF Falsy(frame.content)
       THEN Raise("MaxRetries: Unable to render the page. Try increasing timeout")
       ELSE /\ outcome' = [kind |-> "returned", value |-> frame.result]
            /\ frame' = [frame EXCEPT !.pc = "done"]
    /\ UNCHANGED <<browsers, loopRunning, tvars, pvars, cvars, heap, runst, mode, args, att,
                   pages, ends, ncalls>>

Finish ==
    /\ frame.pc = "finish"
    /\ IF Falsy(frame.content)
       THEN /\ Raise("MaxRetries: Unable to render the page. Try increasing timeout")
            /\ UNCHANGED <<sessions, doc, el>>
       ELSE /\ sessions' = Append(sessions, NewSession("sync", TRUE, "default"))
            /\ doc' = [doc EXCEPT !.html = frame.content,
                                  !.session = Len(sessions) + 1,
                                  !.page = frame.page]
            /\ el' = Rendered(el)
            /\ outcome' = [kind |-> "returned", value |-> frame.result]
            /\ frame' = [frame EXCEPT !.pc = "done"]
    /\ UNCHANGED <<browsers, loopRunning, tvars, pvars, cvars, heap, runst, mode, args, att,
                   pages, ends, ncalls>>

\* the caller has taken the result or the exception: the frames of the
\* call are gone
Exit ==
    /\ frame.pc = "done"
    /\ args' = NoArgs
    /\ frame' = IdleFrame
    /\ att' = IdleAtt
    /\ ends' = <<>>
    /\ outcome' = NoOutcome
    /\ UNCHANGED <<svars, tvars, xvars, mode, doc, pages, ncalls>>

\* ---- pagination: HTML.next and the iterators ----

DEFAULT_NEXT_SYMBOL == <<"next", "more", "older", "xia yi ye">>

\* an href is "/<dir>/<n>" ("" when dir is ""); None is what dict.get returns for no key
None == [dir |-> "None", n |-> 0]
EmptyHref == [dir |-> "", n |-> 0]
NoUrl == [origin |-> "", dir |-> "None", n |-> 0]

\* no pagination call has been made
IdleIt == [entry |-> "idle", pc |-> "idle", cur |-> 0, produced |-> <<>>,
           fetched |-> <<>>, ret |-> NoUrl, err |-> "none"]

IdlePagination ==
    /\ site = <<>>
    /\ it = IdleIt

\* ---- cookies: from the session's jar to the pages of the browser ----

\* one arender call and another one on documents of the same session
RenderCalls == {"one", "other"}

\* an arender call that has not been made
IdleRc == [pc |-> "idle", send |-> FALSE, explicit |-> <<>>, cookies |-> <<>>,
           jar0 |-> <<>>, attempt |-> 0, j |-> 1, open |-> FALSE,
           injected |-> <<>>, seen |-> {}]

IdleCookies ==
    /\ jar = <<>>
    /\ rc = [r \in RenderCalls |-> IdleRc]
    /\ ctx = {}

\* ---- further objects: symbol lists, a run call, a parser object ----

\* the module-level list DEFAULT_NEXT_SYMBOL is list object 1; no document yet
IdleHeap == [lists |-> <<DEFAULT_NEXT_SYMBOL>>, docs |-> <<>>, log |-> <<>>]

\* no run call has been made
IdleRun == [pc |-> "idle", coros |-> <<>>, finished |-> <<>>, ret |-> <<>>]

IdleObjects ==
    /\ heap = IdleHeap
    /\ runst = IdleRun
    /\ el = IdleEl

IdleRender ==
    /\ args = NoArgs
    /\ frame = IdleFrame
    /\ att = IdleAtt
    /\ pages = <<>>
    /\ ends = <<>>
    /\ outcome = NoOutcome
    /\ ncalls = 0

InitTasks ==
    /\ tpc = [t \in Tasks |-> "idle"]
    /\ last = [t |-> 0, op |-> "none", err |-> "none", ret |-> 0, fresh |-> FALSE,
               inLoop |-> FALSE, n |-> 0]
    /\ tscope = [t \in Tasks |-> FALSE]
    /\ tclose = [t \in Tasks |-> 0]

InitSession ==
    /\ \E kind \in {"sync", "async"}, verify \in BOOLEAN,
          browser_args \in {"default", "custom"} :
          /\ sessions = <<NewSession(kind, verify, browser_args)>>
          /\ loopRunning = (kind = "async")
    /\ browsers = <<>>
    /\ InitTasks
    /\ mode = sessions[1].kind
    /\ doc = [url |-> DEFAULT_URL, html |-> 0, session |-> 1, page |-> 0, browser |-> 0]
    /\ IdleRender
    /\ IdlePagination
    /\ IdleCookies
    /\ IdleObjects

NextSession ==
    \/ \E t \in Tasks : Request(t)
    \/ \E t \in Tasks : SyncBrowser(t)
    \/ \E t \in Tasks : AsyncBrowserBegin(t)
    \/ \E t \in Tasks : AsyncBrowserLaunched(t)
    \/ \E t \in Tasks : SyncClose(t)
    \/ \E t \in Tasks : AsyncCloseBegin(t)
    \/ \E t \in Tasks : AsyncCloseDone(t)
    \/ \E t \in Tasks : EnterWith(t)
    \/ \E t \in Tasks : ExitWith(t)
    \/ \E t \in Tasks : EnterAsyncWith(t)
    \/ ToggleLoop

SpecSession == InitSession /\ [][NextSession]_vars

\* a document fetched through a session that has not launched a browser yet
Init ==
    /\ \E m \in {"sync", "async"}, u \in {DEFAULT_URL, "https://site/"} :
          /\ mode = m
          /\ sessions = <<NewSession(m, TRUE, "default")>>
          /\ loopRunning = (m = "async")
          /\ doc = [url |-> u, html |-> 0, session |-> 1, page |-> 0, browser |-> 0]
    /\ browsers = <<>>
    /\ InitTasks
    /\ IdleRender
    /\ IdlePagination
    /\ IdleCookies
    /\ IdleObjects

Next ==
    \/ Call
    \/ RenderAcquire
    \/ ArenderAcquire
    \/ ArenderLaunched
    \/ LoopHead
    \/ NewPage
    \/ SetCookie
    \/ Goto
    \/ Evaluate
    \/ ScrollStep
    \/ ScrollEnd
    \/ Capture
    \/ ClosePage
    \/ Fail
    \/ Finish
    \/ Exit

Spec == Init /\ [][Next]_vars

\* ---- one render call on a document with content and parse state ----

\* the only call on the document
CallOnce == ncalls = 0 /\ Call

\* the sync/async document of Init with its parser state: fetched content
\* that does or does not declare its encoding, handles built or not
InitAttempt ==
    /\ \E m \in {"sync", "async"} :
          /\ mode = m
          /\ sessions = <<NewSession(m, TRUE, "default")>>
          /\ loopRunning = (m = "async")
    /\ doc = [url |-> "https://site/", html |-> 0, session |-> 1, page |-> 0, browser |-> 0]
    /\ browsers = <<>>
    /\ InitTasks
    /\ IdleRender
    /\ IdlePagination
    /\ IdleCookies
    /\ heap = IdleHeap
    /\ runst = IdleRun
    /\ \E k \in {"fetched", "declared"}, built \in {"none", "lxml", "pq"} :
          LET e == FreshParser("https://site/", HtmlOf(0, k), "utf-8", 0) IN
          el = [e EXCEPT !.lxml = IF built = "none" THEN NoTree ELSE lxml(e),
                         !.pq = IF built = "pq" THEN pq(e) ELSE NoTree]

NextAttempt ==
    \/ CallOnce
    \/ RenderAcquire
    \/ ArenderAcquire
    \/ ArenderLaunched
    \/ LoopHead
    \/ NewPage
    \/ SetCookie
    \/ Goto
    \/ Evaluate
    \/ ScrollStep
    \/ ScrollEnd
    \/ Capture
    \/ ClosePage
    \/ Fail
    \/ Finish
    \/ Exit

SpecAttempt == InitAttempt /\ [][NextAttempt]_vars

\* ---- pagination: the search for the next page ----

\* str.lower() on the texts and symbols the model uses
lower(t) ==
    CASE t = "Next page" -> "next page"
      [] t = "Home" -> "home"
      [] t = "Weiter" -> "weiter"
      [] OTHER -> t

\* `c in t` (substring) on the strings the model uses
In(c, t) ==
    \/ c = t
    \/ <<c, t>> \in {<<"next", "next page">>, <<"next", "btn-next">>}

\* dict.get(key, default)
Get(d, key, default) == IF key \in DOMAIN d THEN d[key] ELSE default

Reverse(s) == [i \in 1..Len(s) |-> s[Len(s) + 1 - i]]

\* BaseParser.find("a", containing=...) without the reversal
find_unreversed(anchors, containing) ==
    LET hit(a) == \E i \in DOMAIN containing : In(lower(containing[i]), lower(a.text))
    IN  SelectSeq(anchors, hit)

\* BaseParser.find("a", containing=...): the anchors whose text contains a
\* symbol, case-insensitively, in reverse document order
find(anchors, containing) ==
    LET hit(a) == \E i \in DOMAIN containing : In(lower(containing[i]), lower(a.text))
    IN  Reverse(SelectSeq(anchors, hit))

\* the three tests get_next makes on a candidate that has a non-empty href
RelNext(a) == "next" \in Get(a.attrs, "rel", {})
ClassNext(a) == \E c \in Get(a.attrs, "class", {}) : In("next", c)
HrefPage(a) == In("page", Get(a.attrs, "href", None).dir)
Truthy(href) == href \notin {None, EmptyHref}

RECURSIVE Scan(_, _)
\* the for loop of get_next from candidate i on: the href it returns, or None
\* when it runs off the end of the list
Scan(candidates, i) ==
    IF i > Len(candidates) THEN None
    ELSE LET a == candidates[i] IN
         IF /\ Truthy(Get(a.attrs, "href", None))
            /\ (RelNext(a) \/ ClassNext(a) \/ HrefPage(a))
         THEN a.attrs["href"]
         ELSE Scan(candidates, i + 1)

\* get_next whose IndexError on an empty candidate list is not caught
get_next_uncaught(candidates) ==
    LET r == Scan(candidates, 1) IN
    IF r # None THEN [err |-> "none", val |-> r]
    ELSE IF candidates = <<>> THEN [err |-> "IndexError", val |-> None]
    ELSE IF "href" \in DOMAIN candidates[Len(candidates)].attrs
         THEN [err |-> "none", val |-> candidates[Len(candidates)].attrs["href"]]
         ELSE [err |-> "KeyError", val |-> None]

\* get_next: what it returns or raises
get_next(candidates) ==
    LET r == Scan(candidates, 1) IN
    IF r # None THEN [err |-> "none", val |-> r]
    ELSE IF candidates = <<>> THEN [err |-> "none", val |-> None]
    ELSE IF "href" \in DOMAIN candidates[Len(candidates)].attrs
         THEN [err |-> "none", val |-> candidates[Len(candidates)].attrs["href"]]
         ELSE [err |-> "KeyError", val |-> None]

\* _make_absolute on an absolute-path href: scheme and host of the document
make_absolute(d, href) == [origin |-> d.url.origin, dir |-> href.dir, n |-> href.n]

\* HTML.next(fetch): error raised, url found, and whether session.get is called
HTML_next(d, fetch, next_symbol) ==
    LET r == get_next(find(d.anchors, next_symbol)) IN
    IF r.err # "none" THEN [err |-> r.err, url |-> NoUrl, get |-> FALSE]
    ELSE IF ~Truthy(r.val) THEN [err |-> "none", url |-> NoUrl, get |-> FALSE]
    ELSE [err |-> "none", url |-> make_absolute(d, r.val), get |-> fetch]

\* the url of page p of the site, and the page the server returns for a url
UrlOf(p) == [origin |-> "https://site", dir |-> "p", n |-> p]
Serve(url) == url.n

\* a direct call document.next(fetch=f) on document 1
CallNext(f) ==
    /\ it.entry = "idle"
    /\ LET r == HTML_next(site[1], f, DEFAULT_NEXT_SYMBOL) IN
       it' = [it EXCEPT !.entry = "next",
                        !.pc = IF r.err = "none" THEN "done" ELSE "raised",
                        !.err = r.err,
                        !.ret = r.url,
                        !.fetched = IF r.get THEN <<r.url>> ELSE <<>>]
    /\ UNCHANGED <<svars, tvars, rvars, cvars, ovars, site>>

\* the attributes an anchor at document position k may carry
HrefSet(k) == {None, EmptyHref, [dir |-> "p", n |-> k], [dir |-> "page", n |-> k]}
MarkSet == {"plain", "rel", "class"}
MkAttrs(h, m) ==
    [key \in (IF h = None THEN {} ELSE {"href"})
             \cup (IF m = "rel" THEN {"rel"} ELSE {})
             \cup (IF m = "class" THEN {"class"} ELSE {}) |->
        CASE key = "href" -> h
          [] key = "rel" -> {"next", "nofollow"}
          [] key = "class" -> {"btn", "btn-next"}]
AnchorSet(k) ==
    {[text |-> t, attrs |-> MkAttrs(h, m)] :
        t \in {"Next page", "Home"}, h \in HrefSet(k), m \in MarkSet}

RECURSIVE AnchorsOfLen(_)
\* documents of len anchors; the href of the k-th anchor ends in k
AnchorsOfLen(len) ==
    IF len = 0 THEN {<<>>}
    ELSE {Append(s, a) : s \in AnchorsOfLen(len - 1), a \in AnchorSet(len)}

\* a document of a session of kind m on which no render call is made
QuietRender(m) ==
    /\ mode = m
    /\ sessions = <<NewSession(m, TRUE, "default")>>
    /\ loopRunning = (m = "async")
    /\ browsers = <<>>
    /\ doc = [url |-> "https://site/", html |-> 0, session |-> 1, page |-> 0, browser |-> 0]
    /\ InitTasks
    /\ IdleRender

\* one document with any anchors, searched once
InitNext ==
    /\ QuietRender("sync")
    /\ IdleCookies
    /\ IdleObjects
    /\ \E len \in 0..MaxLinks : \E s \in AnchorsOfLen(len) :
          site = <<[url |-> UrlOf(1), anchors |-> s]>>
    /\ it = IdleIt

NextNext == \E f \in BOOLEAN : CallNext(f)

SpecNext == InitNext /\ [][NextNext]_vars

\* ---- pagination: the iterators ----

\* session.get(url).html as the iterators use it: an HTMLSession returns a
\* response, an AsyncHTMLSession a future that has no html attribute
HasHtml == mode = "sync"

\* `for page in document`: HTML.__iter__ is entered
IterStart ==
    /\ it.entry = "idle"
    /\ it' = [it EXCEPT !.entry = "iter", !.pc = "yield", !.cur = 1]
    /\ UNCHANGED <<svars, tvars, rvars, cvars, ovars, site>>

\* yield next
IterYield ==
    /\ it.entry = "iter" /\ it.pc = "yield"
    /\ Len(it.produced) < MaxYield
    /\ it' = [it EXCEPT !.produced = Append(@, it.cur), !.pc = "advance"]
    /\ UNCHANGED <<svars, tvars, rvars, cvars, ovars, site>>

\* next = next.next(fetch=True, ...).html; an AttributeError ends the generator
IterAdvance ==
    /\ it.entry = "iter" /\ it.pc = "advance"
    /\ LET r == HTML_next(site[it.cur], TRUE, DEFAULT_NEXT_SYMBOL) IN
       IF r.err # "none"
       THEN it' = [it EXCEPT !.pc = "raised", !.err = r.err]
       ELSE IF r.url = NoUrl
       THEN it' = [it EXCEPT !.pc = "stopped"]
       ELSE IF HasHtml
       THEN it' = [it EXCEPT !.fetched = Append(@, r.url), !.cur = Serve(r.url),
                             !.pc = "yield"]
       ELSE it' = [it EXCEPT !.fetched = Append(@, r.url), !.pc = "stopped"]
    /\ UNCHANGED <<svars, tvars, rvars, cvars, ovars, site>>

\* HTML.__next__: self.next(fetch=True, ...).html
DunderNext ==
    /\ it.entry = "idle"
    /\ LET r == HTML_next(site[1], TRUE, DEFAULT_NEXT_SYMBOL) IN
       IF r.err # "none"
       THEN it' = [it EXCEPT !.entry = "__next__", !.pc = "raised", !.err = r.err]
       ELSE IF r.url = NoUrl
       THEN it' = [it EXCEPT !.entry = "__next__", !.pc = "raised",
                             !.err = "AttributeError"]
       ELSE IF HasHtml
       THEN it' = [it EXCEPT !.entry = "__next__", !.pc = "done",
                             !.fetched = <<r.url>>, !.produced = <<Serve(r.url)>>]
       ELSE it' = [it EXCEPT !.entry = "__next__", !.pc = "raised",
                             !.fetched = <<r.url>>, !.err = "AttributeError"]
    /\ UNCHANGED <<svars, tvars, rvars, cvars, ovars, site>>

\* `async for page in document`: HTML.__aiter__ returns the document itself
AiterStart ==
    /\ it.entry = "idle"
    /\ it' = [it EXCEPT !.entry = "aiter", !.pc = "anext", !.cur = 1]
    /\ UNCHANGED <<svars, tvars, rvars, cvars, ovars, site>>

\* HTML.__anext__ on the object __aiter__ returned; element 0 is None, returned
\* when the loop is left by break; awaiting the response of an HTMLSession is
\* a TypeError
Anext ==
    /\ it.entry = "aiter" /\ it.pc = "anext"
    /\ Len(it.produced) < MaxYield
    /\ LET r == HTML_next(site[it.cur], FALSE, DEFAULT_NEXT_SYMBOL) IN
       IF r.err # "none"
       THEN it' = [it EXCEPT !.pc = "raised", !.err = r.err]
       ELSE IF r.url = NoUrl
       THEN it' = [it EXCEPT !.produced = Append(@, 0)]
       ELSE IF mode = "async"
       THEN it' = [it EXCEPT !.fetched = Append(@, r.url),
                             !.produced = Append(@, Serve(r.url))]
       ELSE it' = [it EXCEPT !.fetched = Append(@, r.url), !.pc = "raised",
                             !.err = "TypeError"]
    /\ UNCHANGED <<svars, tvars, rvars, cvars, ovars, site>>

\* what a page of the site may hold: nothing, a link matching no symbol, a
\* matching link to page k, a matching anchor without href
Layouts ==
    {<<>>,
     <<[text |-> "Home", attrs |-> MkAttrs([dir |-> "p", n |-> 1], "plain")]>>,
     <<[text |-> "Next page", attrs |-> MkAttrs(None, "plain")]>>}
    \cup {<<[text |-> "Next page", attrs |-> MkAttrs([dir |-> "p", n |-> k], "plain")]>> :
             k \in 1..NPages}

\* NPages pages served by one host; document 1 is the one iterated
InitIter ==
    /\ \E m \in {"sync", "async"} : QuietRender(m)
    /\ IdleCookies
    /\ IdleObjects
    /\ \E l \in [1..NPages -> Layouts] :
          site = [p \in 1..NPages |-> [url |-> UrlOf(p), anchors |-> l[p]]]
    /\ it = IdleIt

NextIter ==
    \/ \E f \in BOOLEAN : CallNext(f)
    \/ IterStart
    \/ IterYield
    \/ IterAdvance
    \/ DunderNext
    \/ AiterStart
    \/ Anext

SpecIter == InitIter /\ [][NextIter]_vars

\* ---- cookies: conversion of the jar and injection into pages ----

\* Python values are written as their repr; `not v` holds of these
IsFalse(v) == v \in {"", "None", "False", "0"}

\* the keys _convert_cookiejar_to_render evaluates, in order
CookieKeys == <<"name", "value", "url", "domain", "path", "sameSite", "expires",
                "httpOnly", "secure">>

\* the keys that are attributes of http.cookiejar.Cookie; evaluating another
\* one raises AttributeError (HttpOnly and SameSite are kept in the _rest dict)
CookieAttributes == {"name", "value", "domain", "path", "expires", "secure"}

EmptyDict == [k \in {} |-> ""]

\* dict.update(other)
Update(d, other) == other @@ d

\* __convert: {key: v}, or "" (which updates nothing) when the attribute
\* cannot be read or its value is falsy
convert(cookiejar, key) ==
    IF key \notin CookieAttributes \/ cookiejar.broken THEN EmptyDict
    ELSE IF IsFalse(cookiejar[key]) THEN EmptyDict
    ELSE key :> cookiejar[key]

RECURSIVE ConvertFrom(_, _, _)
\* the loop `for key in keys: cookie_render.update(__convert(...))` from key i on
ConvertFrom(cookiejar, i, cookie_render) ==
    IF i > Len(CookieKeys) THEN cookie_render
    ELSE ConvertFrom(cookiejar, i + 1, Update(cookie_render, convert(cookiejar, CookieKeys[i])))

convert_cookiejar_to_render(session_cookiejar) ==
    ConvertFrom(session_cookiejar, 1, EmptyDict)

\* _convert_cookiesjar_to_render: one record per cookie of the jar, with url
\* set to the document's url
convert_cookiesjar_to_render(cookies, url) ==
    [i \in 1..Len(cookies) |->
        Update(convert_cookiejar_to_render(cookies[i]), "url" :> url)]

\* mutant of RenderCookies: the explicit list is used even with send_cookies_session
RenderCookies_explicit(send, explicit, cookies, url) == explicit

\* if send_cookies_session: cookies = self._convert_cookiesjar_to_render()
RenderCookies(send, explicit, cookies, url) ==
    IF send THEN convert_cookiesjar_to_render(cookies, url) ELSE explicit

\* the explicit cookie lists a caller passes: the default [{}] and a list
\* of a cookie and an empty record
ExplicitLists ==
    {<<EmptyDict>>,
     <<("name" :> "a") @@ ("value" :> "1") @@ ("url" :> "https://site/"),
       EmptyDict>>}

\* await document.arender(cookies=..., send_cookies_session=...) is called
RCall(r) ==
    /\ rc[r].pc = "idle"
    /\ \E send \in BOOLEAN, explicit \in ExplicitLists :
          rc' = [rc EXCEPT ![r] = [@ EXCEPT
                    !.pc = "newPage", !.send = send, !.explicit = explicit,
                    !.cookies = RenderCookies(send, explicit, jar, doc.url),
                    !.jar0 = jar, !.attempt = 1]]
    /\ UNCHANGED <<svars, tvars, rvars, pvars, ovars, jar, ctx>>

\* page = await self.browser.newPage(): a page of the browser's default context
RNewPage(r) ==
    /\ rc[r].pc = "newPage"
    /\ rc' = [rc EXCEPT ![r] = [@ EXCEPT
                 !.pc = IF rc[r].cookies # <<>> THEN "setCookie" ELSE "goto",
                 !.open = TRUE, !.j = 1, !.injected = <<>>, !.seen = {}]]
    /\ UNCHANGED <<svars, tvars, rvars, pvars, ovars, jar, ctx>>

\* for cookie in cookies: if cookie: await page.setCookie(cookie)
RSetCookie(r) ==
    /\ rc[r].pc = "setCookie"
    /\ LET c == rc[r].cookies[rc[r].j] IN
       /\ rc' = [rc EXCEPT ![r] = [@ EXCEPT
                    !.j = @ + 1,
                    !.injected = IF DOMAIN c # {} THEN Append(@, c) ELSE @,
                    !.pc = IF rc[r].j = Len(rc[r].cookies) THEN "goto" ELSE "setCookie"]]
       /\ ctx' = IF DOMAIN c # {} THEN ctx \cup {c} ELSE ctx
    /\ UNCHANGED <<svars, tvars, rvars, pvars, ovars, jar>>

\* await page.goto(...): the page is served the cookies of its context; on a
\* timeout the page is closed and the retry loop starts the next attempt
RGoto(r) ==
    /\ rc[r].pc = "goto"
    /\ \E timedOut \in BOOLEAN :
          IF timedOut
          THEN rc' = [rc EXCEPT ![r] = [@ EXCEPT
                         !.seen = ctx, !.open = FALSE,
                         !.attempt = IF @ < MaxAttempts THEN @ + 1 ELSE @,
                         !.pc = IF rc[r].attempt < MaxAttempts THEN "newPage" ELSE "done"]]
          ELSE rc' = [rc EXCEPT ![r] = [@ EXCEPT !.seen = ctx, !.pc = "close"]]
    /\ UNCHANGED <<svars, tvars, rvars, pvars, ovars, jar, ctx>>

\* content = await page.content(); await page.close()
RClose(r) ==
    /\ rc[r].pc = "close"
    /\ rc' = [rc EXCEPT ![r] = [@ EXCEPT !.open = FALSE, !.pc = "done"]]
    /\ UNCHANGED <<svars, tvars, rvars, pvars, ovars, jar, ctx>>

\* the cookies a jar may hold; the k-th cookie of a jar has the k-th name;
\* reading any attribute of a broken cookie raises
CookieNames == <<"sid", "theme", "lang", "seen", "ab">>
CookieSet(k) ==
    [name : {CookieNames[k]}, value : {"", "abc"}, domain : {".site"}, path : {"/"},
     expires : {"None", "1893456000"}, secure : {"True", "False"},
     rest : {{}, {"HttpOnly", "SameSite"}}, broken : BOOLEAN]

RECURSIVE JarsOfLen(_)
JarsOfLen(len) ==
    IF len = 0 THEN {<<>>}
    ELSE {Append(j, c) : j \in JarsOfLen(len - 1), c \in CookieSet(len)}

\* an AsyncHTMLSession whose documents are at https://site/
QuietSession ==
    /\ QuietRender("async")
    /\ IdleObjects
    /\ IdlePagination
    /\ rc = [r \in RenderCalls |-> IdleRc]
    /\ ctx = {}

\* a jar of any cookies, converted by one call with send_cookies_session or without
InitConvert ==
    /\ QuietSession
    /\ \E len \in 0..MaxJar : jar \in JarsOfLen(len)

NextConvert == \E r \in RenderCalls : RCall(r)

SpecConvert == InitConvert /\ [][NextConvert]_vars

\* a response received by the session stores one more cookie in the jar
JarAdd ==
    /\ Len(jar) < MaxJar
    /\ \E c \in CookieSet(Len(jar) + 1) :
          /\ c.value = "abc" /\ c.secure = "True" /\ c.expires = "None" /\ c.rest = {}
          /\ ~c.broken
          /\ jar' = Append(jar, c)
    /\ UNCHANGED <<svars, tvars, rvars, pvars, ovars, rc, ctx>>

\* concurrent arender calls on documents of one session, sharing its browser
InitCookies ==
    /\ QuietSession
    /\ jar = <<>>

NextCookies ==
    \/ JarAdd
    \/ \E r \in RenderCalls : RCall(r)
    \/ \E r \in RenderCalls : RNewPage(r)
    \/ \E r \in RenderCalls : RSetCookie(r)
    \/ \E r \in RenderCalls : RGoto(r)
    \/ \E r \in RenderCalls : RClose(r)

SpecCookies == InitCookies /\ [][NextCookies]_vars

\* ---- pagination: the registered next-page symbols ----

\* mutant of SymbolsRef: every document gets a list of its own
SymbolsRef_copy(lists) == Len(lists) + 1

\* HTML.__init__: self.next_symbol = DEFAULT_NEXT_SYMBOL binds the attribute
\* to the module-level list object itself
SymbolsRef(lists) == 1

\* the list objects after HTML.__init__ has bound next_symbol to object ref
Bind(lists, ref) == IF ref > Len(lists) THEN Append(lists, lists[1]) ELSE lists

\* two pages: one whose only link reads "Weiter", one with a "Weiter" link
\* before a "Next page" link
SymbolSite ==
    <<[url |-> UrlOf(1),
       anchors |-> <<[text |-> "Weiter", attrs |-> MkAttrs([dir |-> "p", n |-> 2], "plain")]>>],
      [url |-> UrlOf(2),
       anchors |-> <<[text |-> "Weiter", attrs |-> MkAttrs([dir |-> "p", n |-> 2], "plain")],
                     [text |-> "Next page", attrs |-> MkAttrs([dir |-> "p", n |-> 1], "plain")]>>]>>

\* HTML(url=..., html=...) for page p of the site
NewDoc(p) ==
    /\ Len(heap.docs) < MaxDocs
    /\ LET ref == SymbolsRef(heap.lists) IN
       heap' = [heap EXCEPT !.lists = Bind(@, ref),
                            !.docs = Append(@, [page |-> p, next_symbol |-> ref,
                                                rendered |-> FALSE])]
    /\ UNCHANGED <<svars, tvars, rvars, cvars, pvars, runst, el>>

\* document.add_next_symbol(sym): self.next_symbol.append(sym)
AddNextSymbol(d, sym) ==
    /\ d \in DOMAIN heap.docs
    /\ Len(heap.log) < MaxAdds
    /\ heap' = [heap EXCEPT !.lists[heap.docs[d].next_symbol] = Append(@, sym),
                            !.log = Append(@, sym)]
    /\ UNCHANGED <<svars, tvars, rvars, cvars, pvars, runst, el>>

\* a successful render of document d: self.__dict__.update(html.__dict__)
\* with html a new HTML object of the same url
RenderDoc(d) ==
    /\ d \in DOMAIN heap.docs
    /\ ~heap.docs[d].rendered
    /\ LET ref == SymbolsRef(heap.lists) IN
       heap' = [heap EXCEPT !.lists = Bind(@, ref),
                            !.docs[d] = [@ EXCEPT !.next_symbol = ref, !.rendered = TRUE]]
    /\ UNCHANGED <<svars, tvars, rvars, cvars, pvars, runst, el>>

\* document.next(fetch=False) on document d: next_symbol = self.next_symbol
SearchDoc(d) ==
    /\ d \in DOMAIN heap.docs
    /\ LET r == HTML_next(site[heap.docs[d].page], FALSE,
                          heap.lists[heap.docs[d].next_symbol]) IN
       it' = [IdleIt EXCEPT !.entry = "next", !.cur = d,
                            !.pc = IF r.err = "none" THEN "done" ELSE "raised",
                            !.err = r.err, !.ret = r.url]
    /\ UNCHANGED <<svars, tvars, rvars, cvars, ovars, site>>

InitSymbols ==
    /\ QuietRender("sync")
    /\ IdleCookies
    /\ IdleObjects
    /\ site = SymbolSite
    /\ it = IdleIt

NextSymbols ==
    \/ \E p \in DOMAIN SymbolSite : NewDoc(p)
    \/ \E d \in 1..MaxDocs, sym \in {"weiter", "zzz"} : AddNextSymbol(d, sym)
    \/ \E d \in 1..MaxDocs : RenderDoc(d)
    \/ \E d \in 1..MaxDocs : SearchDoc(d)

SpecSymbols == InitSymbols /\ [][NextSymbols]_vars

\* ---- AsyncHTMLSession.run ----

\* the values the coroutines handed to run() return
CoroResults == {"a", "b"}

\* the sequences of length n over the set S
SeqsOfLen(S, n) == [1..n -> S]

\* the orders in which a set of n tasks can be iterated
Orders(n) == {f \in [1..n -> 1..n] : \A i, j \in 1..n : f[i] = f[j] => i = j}

\* session.run(*coros): one task per coroutine; asyncio.wait refuses an
\* empty collection of tasks with ValueError
RunCall(coros) ==
    /\ runst.pc = "idle"
    /\ runst' = [IdleRun EXCEPT !.coros = coros,
                                !.pc = IF Len(coros) = 0 THEN "raised" ELSE "waiting"]
    /\ UNCHANGED <<svars, tvars, rvars, cvars, pvars, heap, el>>

\* the loop runs task i to completion
TaskDone(i) ==
    /\ runst.pc = "waiting"
    /\ i \in DOMAIN runst.coros
    /\ \A k \in DOMAIN runst.finished : runst.finished[k] # i
    /\ runst' = [runst EXCEPT !.finished = Append(@, i)]
    /\ UNCHANGED <<svars, tvars, rvars, cvars, pvars, heap, el>>

\* asyncio.wait returns once every task is done; done is a set of tasks, and
\* [t.result() for t in done] follows the iteration order of that set, which
\* is fixed neither by the argument order nor by the completion order
RunReturn ==
    /\ runst.pc = "waiting"
    /\ Len(runst.finished) = Len(runst.coros)
    /\ \E order \in Orders(Len(runst.coros)) :
           runst' = [runst EXCEPT !.pc = "returned",
                                  !.ret = [k \in 1..Len(runst.coros) |->
                                              runst.coros[order[k]]]]
    /\ UNCHANGED <<svars, tvars, rvars, cvars, pvars, heap, el>>

InitRun ==
    /\ QuietRender("async")
    /\ IdleCookies
    /\ IdlePagination
    /\ IdleObjects

NextRun ==
    \/ \E n \in 0..MaxCoros : \E coros \in SeqsOfLen(CoroResults, n) : RunCall(coros)
    \/ \E i \in 1..MaxCoros : TaskDone(i)
    \/ RunReturn

SpecRun == InitRun /\ [][NextRun]_vars

\* ---- BaseParser: operations on one parser object ----

GetLxml ==
    /\ el' = [el EXCEPT !.lxml = lxml(el)]
    /\ UNCHANGED <<svars, tvars, rvars, cvars, pvars, heap, runst>>

\* pq, text and find go through self.pq, which goes through self.lxml
GetPq ==
    /\ el' = [el EXCEPT !.lxml = lxml(el), !.pq = pq(el)]
    /\ UNCHANGED <<svars, tvars, rvars, cvars, pvars, heap, runst>>

\* the html setter: self._html = html.encode(self.encoding)
SetHtml(kind) ==
    /\ el' = [el EXCEPT !.html = HtmlOf(el.gen, kind)]
    /\ UNCHANGED <<svars, tvars, rvars, cvars, pvars, heap, runst>>

\* what find/xpath with clean=True do to a returned element:
\* element.raw_html = lxml_html_tostring(cleaner.clean_html(element.lxml))
CleanElement ==
    /\ el' = [el EXCEPT !.lxml = lxml(el), !.html = clean_html(lxml(el))]
    /\ UNCHANGED <<svars, tvars, rvars, cvars, pvars, heap, runst>>

\* the end of a successful render whose final attempt captured content
RenderSuccess(content) ==
    /\ el.gen < MaxRenders
    /\ content = HtmlOf(el.gen + 1, "rendered")
    /\ el' = DictUpdate(el, FreshParser(el.url, content, DEFAULT_ENCODING, content.gen))
    /\ UNCHANGED <<svars, tvars, rvars, cvars, pvars, heap, runst>>

ParserUrls == {"https://site/", "https://example.org/"}

InitParser ==
    /\ QuietRender("sync")
    /\ IdleCookies
    /\ IdlePagination
    /\ heap = IdleHeap
    /\ runst = IdleRun
    /\ \E u \in ParserUrls, k \in {"fetched", "declared"} :
          el = FreshParser(u, HtmlOf(0, k), "utf-8", 0)

NextParser ==
    \/ GetLxml
    \/ GetPq
    \/ \E kind \in {"assigned", "reassigned"} : SetHtml(kind)
    \/ CleanElement
    \/ \E g \in 1..MaxRenders : RenderSuccess(HtmlOf(g, "rendered"))

SpecParser == InitParser /\ [][NextParser]_vars

\* ---- properties of the browser lifecycle (SpecSession) ----

\* an operation op completed in this step
Completes(op) == last'.n # last.n /\ last'.op = op

\* C4: browser acquisition of the async session is single-flight: a session
\* never has more than one live browser, however many coroutines access
\* session.browser before the first launch has completed.
C4_SingleFlight ==
    \A s \in 1..Len(sessions) : Cardinality(LiveOf(browsers, s)) <= 1

\* C5: the browser is created lazily and memoized: only a browser access
\* launches (construction, get and post launch nothing); the first access
\* launches one browser with the session's configured options and memoizes
\* it; every further sequential access launches nothing and returns the
\* memoized handle.
C5_LazyMemoized ==
    [][ /\ Len(browsers') # Len(browsers) =>
             Completes("browser") /\ Len(browsers') = Len(browsers) + 1
        /\ (/\ Completes("browser")
            /\ last'.err = "none"
            /\ \A u \in Tasks \ {last'.t} : tpc[u] # "launching") =>
             IF sessions[1].has
             THEN tpc[last'.t] = "idle" =>
                     /\ browsers' = browsers
                     /\ sessions' = sessions
                     /\ last'.ret = sessions[1].browser
             ELSE /\ browsers' = Append(browsers,
                        [owner |-> 1, ignoreHTTPSErrors |-> ~sessions[1].verify,
                         opts |-> sessions[1].args, live |-> TRUE])
                  /\ last'.ret = Len(browsers')
                  /\ sessions'[1].has
                  /\ sessions'[1].browser = last'.ret
      ]_vars

\* C5 witness: an access was served from the memoized handle of the one
\* browser the session launched.
C5_Witness ==
    /\ last.op = "browser" /\ last.err = "none" /\ ~last.fresh
    /\ Len(browsers) = 1
    /\ last.ret = 1 /\ sessions[1].browser = 1 /\ browsers[1].live

\* C6: after close() the memoized handle is cleared, so an access to
\* session.browser never returns a closed browser.
C6_ReuseAfterClose ==
    [][ (Completes("browser") /\ last'.err = "none") => browsers'[last'.ret].live ]_vars

\* C7: when close() or the exit of a with-scope completes, no browser of
\* the session is live, and nothing was launched by it.
C7_CloseLeavesNoBrowser ==
    [][ ((Completes("close") \/ Completes("exit")) /\ last'.err = "none") =>
            /\ LiveOf(browsers', 1) = {}
            /\ Len(browsers') = Len(browsers) ]_vars

\* C8: every access to the synchronous session's browser made while an
\* event loop is running fails with the 'Use AsyncHTMLSession instead'
\* RuntimeError and returns no handle.
C8_SyncInLoopFails ==
    (sessions[1].kind = "sync" /\ last.op = "browser" /\ last.inLoop) =>
        /\ last.err = "RuntimeError: Use AsyncHTMLSession instead"
        /\ last.ret = 0

\* ---- properties of render / arender (Spec) ----

MaxRetriesError == "MaxRetries: Unable to render the page. Try increasing timeout"

\* the pages opened by the current call, and the page of its k-th attempt
CallPages == {p \in 1..Len(pages) : pages[p].call = ncalls}
PageOfAttempt(k) == CHOOSE p \in CallPages : pages[p].attempt = k

\* the call ended before its first attempt, in the browser accessor
AcquisitionFailed ==
    /\ ends = <<>>
    /\ outcome.kind = "raised"
    /\ outcome.value \in {"RuntimeError: Use AsyncHTMLSession instead", "TypeError"}

\* C1: with retries = N, if every attempt ends in a navigation timeout the
\* call makes exactly N attempts, opens N pages and leaves none of them
\* open, and raises MaxRetries with the 'Try increasing timeout' message.
C1_AllTimeoutsRaiseMaxRetries ==
    (/\ frame.pc = "done"
     /\ ~AcquisitionFailed
     /\ \A m \in 1..Len(ends) : ends[m] = "timeout") =>
        /\ Len(ends) = args.retries
        /\ Cardinality(CallPages) = args.retries
        /\ \A p \in CallPages : ~pages[p].open
        /\ outcome = [kind |-> "raised", value |-> MaxRetriesError]

\* C1 witness: two attempts, both timed out, and the call has ended.
C1_Witness ==
    /\ frame.pc = "done"
    /\ args.retries = 2
    /\ ends = <<"timeout", "timeout">>
    /\ outcome.kind = "raised"

\* C2: if attempts 1..k-1 produce no content and attempt k produces
\* content, no attempt follows attempt k, and the call installs the content
\* of attempt k on the document, returns its script result and retains its
\* page handle.
C2_FirstContentWins ==
    \A k \in 1..Len(ends) :
        (/\ ends[k] = "content"
         /\ \A m \in 1..(k - 1) : ends[m] \in {"timeout", "empty"}) =>
            /\ Len(ends) = k
            /\ frame.pc = "done" =>
                 LET p == PageOfAttempt(k) IN
                 /\ outcome = [kind |-> "returned",
                               value |-> IF args.script THEN p ELSE 0]
                 /\ doc.html = p
                 /\ doc.page = (IF args.keep_page THEN p ELSE 0)

\* C2 witness: the second attempt succeeded after a first one without
\* content, a script was given, and the call has returned.
C2_Witness ==
    /\ frame.pc = "done"
    /\ Len(ends) = 2
    /\ ends[1] \in {"timeout", "empty"}
    /\ ends[2] = "content"
    /\ args.script
    /\ outcome.kind = "returned"

\* C3: after a successful call, with keep_page the document's page is the
\* final attempt's page and it is open; without keep_page that page is
\* closed and the document's page is None.
C3_KeepPage ==
    (frame.pc = "done" /\ outcome.kind = "returned") =>
        LET p == PageOfAttempt(Len(ends)) IN
        IF args.keep_page
        THEN doc.page = p /\ pages[p].open
        ELSE doc.page = 0 /\ ~pages[p].open

\* C3 witness: a call with keep_page returned and left its page open.
C3_Witness ==
    /\ frame.pc = "done"
    /\ outcome.kind = "returned"
    /\ args.keep_page
    /\ doc.page # 0
    /\ pages[doc.page].open

\* C9: an attempt that ends in an error other than 'no content' is the last
\* attempt of the call, and that error is what the call raises.
C9_OnlyNoContentAbsorbed ==
    \A m \in 1..Len(ends) :
        ends[m] \notin {"timeout", "empty", "content"} =>
            /\ m = Len(ends)
            /\ frame.pc = "done"
            /\ outcome = [kind |-> "raised", value |-> ends[m]]

\* C10: when a call without keep_page has returned or raised, every page
\* it opened is closed.
C10_NoPageLeak ==
    (frame.pc = "done" /\ ~args.keep_page) => \A p \in CallPages : ~pages[p].open

\* ---- properties of the next-page search (SpecNext) ----

\* the candidates HTML.next collects on document 1, and the anchors a rule can pick
Candidates == find(site[1].anchors, DEFAULT_NEXT_SYMBOL)
Usable(a) == Truthy(Get(a.attrs, "href", None))
Chosen(a) == it.err = "none" /\ it.ret = make_absolute(site[1], a.attrs["href"])
Qualifies(a) == Usable(a) /\ (RelNext(a) \/ ClassNext(a) \/ HrefPage(a))

\* C11: the link next() returns is chosen by rule priority over the whole
\* candidate list: a candidate with rel "next" if there is one, else a candidate
\* with a class token containing "next" if there is one, else a candidate whose
\* href contains "page" if there is one.
C11_RulePriority ==
    it.entry = "next" =>
        LET c == Candidates
            rel == {i \in DOMAIN c : Usable(c[i]) /\ RelNext(c[i])}
            cls == {i \in DOMAIN c : Usable(c[i]) /\ ClassNext(c[i])}
            pg == {i \in DOMAIN c : Usable(c[i]) /\ HrefPage(c[i])}
        IN  IF rel # {} THEN \E i \in rel : Chosen(c[i])
            ELSE IF cls # {} THEN \E i \in cls : Chosen(c[i])
            ELSE pg # {} => \E i \in pg : Chosen(c[i])

\* the positions, in document order, of the anchors whose text contains a symbol
Matching ==
    {k \in DOMAIN site[1].anchors :
        \E i \in DOMAIN DEFAULT_NEXT_SYMBOL :
            In(lower(DEFAULT_NEXT_SYMBOL[i]), lower(site[1].anchors[k].text))}
FirstMatch == CHOOSE k \in Matching : \A j \in Matching : k <= j

\* C12: when no candidate satisfies the rel, class or href rules, next() reads
\* the href of the last candidate, which is the first matching anchor in
\* document order (a KeyError if that anchor has no href, None if the href is
\* empty); with no candidate at all next() returns None.
C12_FallbackFirstMatch ==
    (it.entry = "next" /\ \A i \in DOMAIN Candidates : ~Qualifies(Candidates[i])) =>
        IF Matching = {} THEN it.err = "none" /\ it.ret = NoUrl
        ELSE LET a == site[1].anchors[FirstMatch] IN
             IF "href" \notin DOMAIN a.attrs THEN it.err = "KeyError"
             ELSE IF a.attrs["href"] = EmptyHref THEN it.err = "none" /\ it.ret = NoUrl
             ELSE Chosen(a)

\* two matching anchors, neither tagged: the first one in the document is returned
C12_Witness ==
    /\ it.entry = "next"
    /\ Cardinality(Matching) = 2
    /\ \A i \in DOMAIN Candidates : ~Qualifies(Candidates[i])
    /\ it.ret = make_absolute(site[1], [dir |-> "p", n |-> 1])
    /\ Usable(site[1].anchors[2])

\* ---- properties of the iterators (SpecIter) ----

\* C13: `for page in document` on a document with no anchor matching a symbol
\* yields the document itself and nothing else, fetches nothing and raises nothing.
C13_NoLinkYieldsSelfOnly ==
    (it.entry = "iter" /\ Matching = {}) =>
        /\ it.pc \in {"yield", "advance", "stopped"}
        /\ it.err = "none"
        /\ it.fetched = <<>>
        /\ it.produced = IF it.pc = "yield" THEN <<>> ELSE <<1>>

\* the loop over a document holding only a non-matching link has ended
C13_Witness ==
    /\ it.entry = "iter" /\ it.pc = "stopped"
    /\ Matching = {}
    /\ site[1].anchors # <<>>
    /\ it.produced = <<1>>

\* the search on document 1 finds no next page
NoNextPage ==
    LET r == HTML_next(site[1], FALSE, DEFAULT_NEXT_SYMBOL) IN
    r.err = "none" /\ r.url = NoUrl

\* C14: when the search finds no next page every entry point ends the sequence
\* normally: next() returns None, the for loop stops, __next__ raises
\* StopIteration and __anext__ raises StopAsyncIteration without producing
\* an element.
C14_EndOfSequence ==
    NoNextPage =>
        /\ it.entry = "next" => (it.err = "none" /\ it.ret = NoUrl)
        /\ it.entry = "iter" => it.err = "none"
        /\ it.entry = "__next__" => (it.pc = "raised" /\ it.err = "StopIteration")
        /\ it.entry = "aiter" => it.produced = <<>>

\* C15: in both iterators every document produced after the first is the one
\* fetched from the next-page link of the document produced just before it.
C15_AdvancesFromPrevious ==
    it.entry \in {"iter", "aiter"} =>
        \A i \in 1..(Len(it.produced) - 1) :
            it.produced[i] # 0 =>
                LET r == HTML_next(site[it.produced[i]], TRUE, DEFAULT_NEXT_SYMBOL) IN
                r.err = "none" /\ r.url # NoUrl /\ it.produced[i + 1] = Serve(r.url)

\* ---- properties of navigation and cookies in render / arender ----

\* C17: on a document at DEFAULT_URL no attempt of the call navigates to the
\* url; every navigation loads the held HTML, whatever reload was passed.
C17_DefaultUrlNeverNavigates ==
    (doc.url = DEFAULT_URL /\ frame.pc # "idle") =>
        /\ frame.navs \subseteq {"data"}
        /\ att.nav # "url"

\* a call with reload=True whose first attempt timed out and whose second
\* attempt has navigated too
C17_Witness ==
    /\ doc.url = DEFAULT_URL
    /\ args.reload
    /\ ends = <<"timeout">>
    /\ att.nav = "data"
    /\ frame.navs = {"data"}

\* C18 as stated: a render with reload=False of a document at DEFAULT_URL
\* makes no page.goto call at all.
C18_ZeroGotoCalls ==
    (doc.url = DEFAULT_URL /\ ~args.reload /\ frame.pc # "idle") => frame.navs = {}

\* C18 amended: such a render makes no page.goto call to the document's url;
\* an attempt that gets past navigation has made its page.goto call with a
\* data: url holding the HTML.
C18_NoGotoToUrl ==
    (doc.url = DEFAULT_URL /\ ~args.reload /\ frame.pc # "idle") =>
        /\ "url" \notin frame.navs
        /\ frame.pc \in {"evaluate", "scroll", "content", "close"} => "data" \in frame.navs

\* a render with reload=False at DEFAULT_URL has returned after navigating
C18_Witness ==
    /\ doc.url = DEFAULT_URL
    /\ ~args.reload
    /\ frame.pc = "done"
    /\ outcome.kind = "returned"
    /\ frame.navs = {"data"}

\* ---- properties of the cookies given to pages (SpecCookies, SpecConvert) ----

Injected(r) == {rc[r].injected[i] : i \in DOMAIN rc[r].injected}

\* C16: the page of a render call is served no cookie other than those
\* injected for that call: cookies injected for another call on the same
\* browser, running concurrently or earlier, are not visible to it.
C16_IsolatedContexts ==
    \A r \in RenderCalls : rc[r].seen \subseteq Injected(r)

NonEmpty(d) == DOMAIN d # {}

\* C19: once an attempt has injected its cookies, what it injected is the
\* conversion of the jar as it was when the call was made if
\* send_cookies_session is true (the explicit list is ignored), and the
\* non-empty records of the explicit list otherwise.
C19_InjectedCookies ==
    \A r \in RenderCalls :
        rc[r].pc \in {"goto", "close", "done"} =>
            rc[r].injected =
                IF rc[r].send
                THEN convert_cookiesjar_to_render(rc[r].jar0, doc.url)
                ELSE SelectSeq(rc[r].explicit, NonEmpty)

\* the second attempt of a call with send_cookies_session and an explicit
\* cookie has injected the cookie of the jar
C19_Witness ==
    \E r \in RenderCalls :
        /\ rc[r].send
        /\ rc[r].explicit # <<EmptyDict>>
        /\ rc[r].jar0 # <<>>
        /\ rc[r].attempt = 2
        /\ rc[r].pc = "goto"
        /\ Len(rc[r].injected) = 1

\* C20: the record converted from a readable cookie of the jar carries name, value,
\* domain, path and secure with the cookie's values, carries expires, httpOnly
\* and sameSite exactly when the cookie has them, and carries nothing else
\* but url.
C20_LosslessConversion ==
    \A r \in RenderCalls :
        (rc[r].pc # "idle" /\ rc[r].send) =>
            \A i \in {n \in DOMAIN rc[r].jar0 : ~rc[r].jar0[n].broken} :
                LET c == rc[r].jar0[i]
                    d == rc[r].cookies[i]
                IN  /\ \A k \in {"name", "value", "domain", "path", "secure"} :
                           k \in DOMAIN d /\ d[k] = c[k]
                    /\ ("expires" \in DOMAIN d) = (c.expires # "None")
                    /\ "expires" \in DOMAIN d => d["expires"] = c.expires
                    /\ ("httpOnly" \in DOMAIN d) = ("HttpOnly" \in c.rest)
                    /\ ("sameSite" \in DOMAIN d) = ("SameSite" \in c.rest)
                    /\ DOMAIN d \subseteq {CookieKeys[n] : n \in DOMAIN CookieKeys}

\* C21: the converted list holds no record for a cookie whose attributes
\* cannot be read: its length is the size of the jar less the number of
\* such cookies.
C21_UnreadableDropped ==
    \A r \in RenderCalls :
        (rc[r].pc # "idle" /\ rc[r].send) =>
            Len(rc[r].cookies) =
                Cardinality({i \in DOMAIN rc[r].jar0 : ~rc[r].jar0[i].broken})

\* ---- properties of the registered symbols (SpecSymbols) ----

\* C22: a search on any document, whenever the document was created and
\* whether or not it has been rendered, uses the default symbols and every
\* symbol registered so far on any document; no symbol is ever removed.
C22_SharedSymbols ==
    [][/\ \A d \in DOMAIN heap'.docs :
              heap'.lists[heap'.docs[d].next_symbol] = DEFAULT_NEXT_SYMBOL \o heap'.log
       /\ \A d \in DOMAIN heap.docs :
              SearchDoc(d) =>
                  it'.ret = HTML_next(site[heap.docs[d].page], FALSE,
                                      DEFAULT_NEXT_SYMBOL \o heap.log).url
       /\ \E tail \in {<<>>} \cup {<<x>> : x \in {"weiter", "zzz"}} :
              heap'.log = heap.log \o tail]_vars

\* "weiter" was registered on document 1 before document 2 was created and
\* rendered; the search on document 2 finds the "Weiter" link
C22_Witness ==
    /\ Len(heap.docs) = 2
    /\ heap.docs[2].page = 2 /\ heap.docs[2].rendered
    /\ heap.log = <<"weiter">>
    /\ it.entry = "next" /\ it.cur = 2
    /\ it.ret = make_absolute(site[2], [dir |-> "p", n |-> 2])

\* ---- properties of AsyncHTMLSession.run (SpecRun) ----

\* C23: run(c1..cn) returns only after all n coroutines have completed, and
\* the list it returns holds their results in the order they were passed in.
C23_ResultsInArgumentOrder ==
    runst.pc = "returned" =>
        /\ Len(runst.finished) = Len(runst.coros)
        /\ runst.ret = runst.coros

\* ---- properties of the parser's memoized handles (SpecParser) ----

\* C24: a successful render keeps the URL, makes the captured content the
\* document's content and discards the memoized lxml and pq handles, so no
\* handle of the document is ever built from content older than the last render.
C24_RenderReplacesParseState ==
    [][/\ \A g \in 1..MaxRenders :
              RenderSuccess(HtmlOf(g, "rendered")) =>
                  /\ el'.url = el.url
                  /\ el'.html = HtmlOf(g, "rendered")
                  /\ el'.lxml = NoTree /\ el'.pq = NoTree
       /\ el'.lxml # NoTree => el'.lxml.gen = el'.gen
       /\ el'.pq # NoTree => el'.pq.gen = el'.gen]_vars

\* after one successful render a query has built both handles, from the
\* rendered content
C24_Witness ==
    /\ el.gen = 1
    /\ el.html = HtmlOf(1, "rendered")
    /\ el.lxml = el.html /\ el.pq = el.html

\* C30: a memoized lxml or pq handle is always one built from the current
\* content.
C30_HandlesFollowContent ==
    /\ el.lxml # NoTree => el.lxml = el.html
    /\ el.pq # NoTree => el.pq = el.html

\* ---- properties of the document across render calls (Spec, SpecAttempt) ----

\* C25: the document stays bound to the session that fetched it, whatever
\* number of render calls have succeeded on it.
C25_SessionKept == doc.session = 1

\* C26: while a render call is in progress, at most one of the pages the
\* call has opened is open.
C26_OnePageAtATime ==
    frame.pc # "idle" => Cardinality({p \in CallPages : pages[p].open}) <= 1

\* what an attempt has done so far
AllCookiesOffered == frame.cookies = <<>> \/ att.j > Len(frame.cookies)
Navigated == att.nav # "none"
Evaluated == att.result # 0
Scrolled == att.k = args.scrolldown
Captured == att.content # 0

\* C27: within an attempt the steps occur in the order page creation, cookie
\* injections, navigation, evaluation (if a script is given), scroll steps,
\* content capture, page close (unless keep_page): whenever a step is about
\* to run, every step before it has run and no step after it has; so no
\* cookie is injected once the navigation has started and the content is
\* never captured before the last scroll step.
C27_StepOrder ==
    /\ frame.pc = "newPage" =>
           att.page = 0 /\ att.cookies = <<>> /\ ~Navigated
    /\ frame.pc = "setCookie" =>
           att.page # 0 /\ ~AllCookiesOffered /\ ~Navigated
    /\ frame.pc = "goto" =>
           att.page # 0 /\ AllCookiesOffered /\ ~Navigated
    /\ frame.pc \in {"newPage", "setCookie", "goto"} =>
           ~Evaluated /\ att.k = 0 /\ ~Captured
    /\ frame.pc = "evaluate" =>
           args.script /\ Navigated /\ ~Evaluated /\ att.k = 0 /\ ~Captured
    /\ frame.pc = "scroll" =>
           Navigated /\ (args.script <=> Evaluated) /\ ~Captured
    /\ frame.pc = "content" =>
           Navigated /\ (args.script <=> Evaluated) /\ Scrolled /\ ~Captured
    /\ frame.pc = "close" =>
           /\ Navigated /\ (args.script <=> Evaluated) /\ Scrolled /\ Captured
           /\ ~args.keep_page /\ pages[att.page].open
    /\ att.cookies # <<>> => att.page # 0
    /\ Navigated => AllCookiesOffered

\* an attempt with two cookies, a script and a scroll step has captured the
\* content and is about to close its page
C27_Witness ==
    /\ frame.pc = "close"
    /\ att.cookies = <<1, 2>>
    /\ att.nav # "none"
    /\ args.script /\ att.result # 0
    /\ args.scrolldown = 1 /\ att.k = 1

\* C28: a render call changes the document's content, URL, encoding, memoized
\* handles, session and page attribute only in the step in which it returns
\* normally; a call that raises has left all of them as they were.
C28_RaiseLeavesDocument ==
    [][(frame'.pc # "done" \/ outcome'.kind = "raised") =>
           /\ doc'.html = doc.html /\ doc'.url = doc.url
           /\ doc'.session = doc.session /\ doc'.page = doc.page
           /\ el'.html = el.html /\ el'.url = el.url
           /\ encoding(el') = encoding(el)
           /\ el'.lxml = el.lxml /\ el'.pq = el.pq]_vars

\* MaxRetries was raised after two attempts that read the document's content,
\* on a document whose handles were built before the call
C28_Witness ==
    /\ frame.pc = "done"
    /\ outcome = [kind |-> "raised",
                  value |-> "MaxRetries: Unable to render the page. Try increasing timeout"]
    /\ Len(ends) = 2
    /\ el.html = HtmlOf(0, "declared") /\ el.encoding = "iso-8859-1"
    /\ el.lxml = el.html /\ el.pq = el.html
    /\ doc.session = 1 /\ doc.html = 0

\* ---- properties of next() on links without href (SpecIter) ----

\* C29: when anchors of document 1 match a symbol and none of them has an
\* href, next() returns None and the for loop ends after document 1; no
\* exception escapes from either.
C29_NoHrefEndsCleanly ==
    (/\ Matching # {}
     /\ \A k \in Matching : "href" \notin DOMAIN site[1].anchors[k].attrs) =>
        /\ it.entry \in {"next", "iter"} => it.err = "none"
        /\ it.entry = "next" => it.ret = NoUrl
        /\ it.entry = "iter" => it.fetched = <<>>

====
